---- MODULE Spec2Model ----
(***************************************************************************)
(* Room membership management of the messaging backend                    *)
(* (backend/endpoints/rooms.py): create_room, add_to_room, remove_member   *)
(* and remove_mem, run as concurrent request handlers against one room     *)
(* document of the store.                                                  *)
(*                                                                         *)
(* A handler is cut into steps at its awaits: what lies between two awaits *)
(* runs without interleaving (one asyncio event loop), the store is read   *)
(* or written at the await.                                                *)
(***************************************************************************)
EXTENDS Integers, Sequences, FiniteSets, TLC

\* ---------------------------------------------------------------- bounds
\* requests started in one behaviour (all handlers together)
MaxRequests == 2
\* longest new_member mapping of one add_to_room request
MaxNew == 2

\* ------------------------------------------------------ program constants
\* rooms.py:117  len(room["room_members"].keys()) >= 9
MAX_GROUP_DM == 9

\* schema.room.RoomType
DM == "DM"
GROUP_DM == "GROUP_DM"
CHANNEL == "CHANNEL"
RoomType == {DM, GROUP_DM, CHANNEL}

\* schema.room.Role
ADMIN == "admin"
MEMBER == "member"
Role == {ADMIN, MEMBER}

\* the concurrent request tasks
Procs == {1, 2}

\* ids 1..MAX_GROUP_DM can be initial members; the ids above are never
\* initial members of any room
FreshIds == {MAX_GROUP_DM + 1, MAX_GROUP_DM + 2}
\* ids a request names as its actor (member_id): the creator, a plain
\* initial member, an id outside every initial membership
ActorIds == {1, 2, MAX_GROUP_DM + 1}
\* ids a request names as removal target (mem_id)
TargetIds == {1, 2, MAX_GROUP_DM + 1}

\* schema.room.RoomMember, as stored: {"role": ...}
RoomMember(r) == [role |-> r]

\* the membership created for a room of k members: member 1 (the creator)
\* is ADMIN, the others are MEMBER
InitialMembers(k) == [i \in 1..k |-> RoomMember(IF i = 1 THEN ADMIN ELSE MEMBER)]

\* the sizes of the rooms created: a GROUP_DM of 2 members and those within
\* reach of the cap (the two fresh ids are all a room can gain)
GroupDmSizes == {2} \cup ((MAX_GROUP_DM - 2)..MAX_GROUP_DM)
ChannelSizes == {1, MAX_GROUP_DM}

\* the rooms a create_room request can ask for
RoomRequests ==
    {[room_type |-> DM, room_members |-> InitialMembers(2)]}
    \cup {[room_type |-> GROUP_DM, room_members |-> InitialMembers(k)] : k \in GroupDmSizes}
    \cup {[room_type |-> CHANNEL, room_members |-> InitialMembers(k)] : k \in ChannelSizes}

\* what get_room yields when the store has no such room (falsy)
NotFound == [room_type |-> "NotFound", room_members |-> << >>]

\* the entries a request can name in new_member: an initial member with a
\* role other than its stored one, a fresh id as ADMIN, a fresh id as MEMBER
NewEntries ==
    {[id |-> 2, member |-> RoomMember(ADMIN)],
     [id |-> MAX_GROUP_DM + 1, member |-> RoomMember(ADMIN)],
     [id |-> MAX_GROUP_DM + 2, member |-> RoomMember(MEMBER)]}

\* the new_member mappings of a request: a dict keeps the caller's order
\* and has unique keys, so it is a sequence of (id, member) with distinct ids
NewMemberInputs ==
    {s \in UNION {[1..n -> NewEntries] : n \in 0..MaxNew} :
        \A i, j \in DOMAIN s : i # j => s[i].id # s[j].id}

Keys(new_member) == {new_member[i].id : i \in DOMAIN new_member}
Get(new_member, person) ==
    (CHOOSE i \in DOMAIN new_member : new_member[i].id = person)

\* ------------------------------------------------------------ the store
\* utils.room_utils.get_room: the stored room document, or a falsy value
get_room(store) == store

\* DataStorage.update(ROOM_COLLECTION, document_id, data={"room_members": ..})
\* awaited: on success the document's room_members field is replaced by the
\* one sent, on failure the document is left as it was
DB_update(store, room_members, ok) ==
    IF ok THEN [store EXCEPT !.room_members = room_members] ELSE store

\* DataStorage.write(ROOM_COLLECTION, data): on success the document exists
DB_write(store, room_obj, ok) == IF ok THEN room_obj ELSE store

\* ------------------------------------------------------------ add_to_room
\* update with the precedence inverted: an id already present keeps its entry
update_KeepOld(room_members, new_member) ==
    [k \in (DOMAIN room_members) \cup Keys(new_member) |->
        IF k \in DOMAIN room_members
        THEN room_members[k]
        ELSE new_member[Get(new_member, k)].member]

\* rooms.py:113,123  dict.update: a key of new_member replaces the old entry
update(room_members, new_member) ==
    [k \in (DOMAIN room_members) \cup Keys(new_member) |->
        IF k \in Keys(new_member)
        THEN new_member[Get(new_member, k)].member
        ELSE room_members[k]]

\* IsDMRoom testing the wrong room type
IsDMRoom_WrongType(room) == room.room_type = GROUP_DM

\* IsDMRoom testing only for a missing room
IsDMRoom_NoneOnly(room) == room.room_type = "NotFound"

\* rooms.py:104  (room is None cannot be true here: line 102 has already
\* dereferenced room)
IsDMRoom(room) == room.room_type = DM

\* NotAnAdmin without the test for a missing member
NotAnAdmin_RoleOnly(room, member_id) ==
    /\ member_id \in DOMAIN room.room_members
    /\ room.room_members[member_id].role # ADMIN

\* NotAnAdmin without the role test
NotAnAdmin_MemberOnly(room, member_id) == member_id \notin DOMAIN room.room_members

\* rooms.py:102,107  member is None or member["role"] != Role.ADMIN
NotAnAdmin(room, member_id) ==
    \/ member_id \notin DOMAIN room.room_members
    \/ room.room_members[member_id].role # ADMIN

\* GroupDmFull off by one
GroupDmFull_OffByOne(room_members) == Cardinality(DOMAIN room_members) > MAX_GROUP_DM

\* rooms.py:117  len(room["room_members"].keys()) >= 9
GroupDmFull(room_members) == Cardinality(DOMAIN room_members) >= MAX_GROUP_DM

\* group_dm_add leaving the loop after the first insertion
group_dm_add_FirstOnly(room_members, new_member, i) ==
    IF Len(new_member) = 0
    THEN [raised |-> FALSE, room_members |-> room_members]
    ELSE IF Cardinality(DOMAIN room_members) >= MAX_GROUP_DM
         THEN [raised |-> TRUE, room_members |-> room_members]
         ELSE [raised |-> FALSE,
               room_members |-> [k \in (DOMAIN room_members) \cup {new_member[1].id} |->
                                    IF k = new_member[1].id THEN new_member[1].member
                                    ELSE room_members[k]]]

\* group_dm_add testing the size of the whole batch once, before any insertion
group_dm_add_UpFront(room_members, new_member, i) ==
    IF Cardinality(DOMAIN room_members) + Len(new_member) > MAX_GROUP_DM
    THEN [raised |-> TRUE, room_members |-> room_members]
    ELSE [raised |-> FALSE, room_members |-> update(room_members, new_member)]

\* rooms.py:116-123  the loop over list(new_member.keys()), from position i:
\* the size is tested before every insertion, also of an id already present
RECURSIVE group_dm_add(_, _, _)
group_dm_add(room_members, new_member, i) ==
    IF i > Len(new_member)
    THEN [raised |-> FALSE, room_members |-> room_members]
    ELSE IF GroupDmFull(room_members)
         THEN [raised |-> TRUE, room_members |-> room_members]
         ELSE group_dm_add(update(room_members, <<new_member[i]>>), new_member, i + 1)

\* add_members taking the CHANNEL branch for every room type
add_members_NoCap(room, new_member) ==
    [raised |-> FALSE, room_members |-> update(room.room_members, new_member)]

\* rooms.py:112-123  the working copy after the room-type branches
add_members(room, new_member) ==
    IF room.room_type = CHANNEL
    THEN [raised |-> FALSE, room_members |-> update(room.room_members, new_member)]
    ELSE IF room.room_type = GROUP_DM
         THEN group_dm_add(room.room_members, new_member, 1)
         ELSE [raised |-> FALSE, room_members |-> room.room_members]

\* ---------------------------------------------------------- remove_member
\* rooms.py:152  DB.update(...) called without await inside the plain
\* function remove_mem: the value is a coroutine object that never runs,
\* so nothing is sent to the store
UnawaitedUpdate == "coroutine"

\* remove_mem sending the update before it looks at what pop returned
remove_mem_UpdateFirst(room_obj, mem_id) ==
    [status |-> IF mem_id \in DOMAIN room_obj.room_members THEN 200 ELSE 404,
     room_members |-> [k \in (DOMAIN room_obj.room_members) \ {mem_id} |->
                          room_obj.room_members[k]],
     persisted |-> TRUE]

\* remove_mem with a pop that does not report a missing key
remove_mem_NoRaise(room_obj, mem_id) ==
    [status |-> 200,
     room_members |-> [k \in (DOMAIN room_obj.room_members) \ {mem_id} |->
                          room_obj.room_members[k]],
     persisted |-> FALSE]

\* rooms.py:142-163
remove_mem(room_obj, mem_id) ==
    IF mem_id \notin DOMAIN room_obj.room_members
    THEN [status |-> 404, room_members |-> room_obj.room_members, persisted |-> FALSE]
    ELSE LET popped == [k \in (DOMAIN room_obj.room_members) \ {mem_id} |->
                            room_obj.room_members[k]]
             update_room == UnawaitedUpdate
         IN  IF update_room \in {"None", "dict"}
             THEN [status |-> 424, room_members |-> popped, persisted |-> FALSE]
             ELSE [status |-> 200, room_members |-> popped,
                   persisted |-> update_room # UnawaitedUpdate]

\* NotAChannel refusing DM rooms only
NotAChannel_DMOnly(room_obj) == room_obj.room_type = DM

\* rooms.py:199
NotAChannel(room_obj) == room_obj.room_type # CHANNEL

\* rooms.py:205
ActorNotInRoom(room_obj, member_id) == member_id \notin DOMAIN room_obj.room_members

\* rooms.py:213-215  member.role != Role.ADMIN  (the member is read as the
\* RoomMember the annotation at line 213 names: its role is readable)
ActorNotAdmin(room_obj, member_id) == room_obj.room_members[member_id].role # ADMIN

\* rooms.py:193-221
remove_member(room_obj, member_id, mem_id) ==
    IF room_obj = NotFound
    THEN [status |-> 404, room_members |-> room_obj.room_members, persisted |-> FALSE]
    ELSE IF NotAChannel(room_obj)
    THEN [status |-> 403, room_members |-> room_obj.room_members, persisted |-> FALSE]
    ELSE IF ActorNotInRoom(room_obj, member_id)
    THEN [status |-> 404, room_members |-> room_obj.room_members, persisted |-> FALSE]
    ELSE IF member_id = mem_id
    THEN remove_mem(room_obj, member_id)
    ELSE IF ActorNotAdmin(room_obj, member_id)
    THEN [status |-> 403, room_members |-> room_obj.room_members, persisted |-> FALSE]
    ELSE remove_mem(room_obj, mem_id)

\* ------------------------------------------------------------------ state
\* db       the room document of the store (NotFound before creation)
\* req      per request task: the handler's locals and its position
\* started  number of add/remove requests started so far
\* created  outcome of the last create_room request
VARIABLES db, req, started, created

vars == <<db, req, started, created>>

Idle == [pc |-> "idle", op |-> "none", member_id |-> 0, new_member |-> << >>,
         mem_id |-> 0, fetched |-> NotFound, room |-> NotFound,
         update_res |-> FALSE, wrote |-> FALSE, status |-> 0, tasks |-> << >>]

Init ==
    /\ db = NotFound
    /\ req = [p \in Procs |-> Idle]
    /\ started = 0
    /\ created = [status |-> 0, tasks |-> << >>]

\* create_room scheduling the sidebar task before it looks at the response
create_room_NotifyFirst(request, ok) ==
    [status |-> IF ok THEN 201 ELSE 424,
     tasks |-> <<[event |-> "sidebar", data |-> request.room_type]>>]

\* rooms.py:46-65  what create_room does with the response of DB.write
create_room(request, ok) ==
    IF ok
    THEN [status |-> 201,
          tasks |-> <<[event |-> "sidebar", data |-> request.room_type]>>]
    ELSE [status |-> 424, tasks |-> << >>]

\* rooms.py:43-65  create_room
CreateRoom ==
    /\ db = NotFound
    /\ \E request \in RoomRequests, ok \in BOOLEAN :
        /\ db' = DB_write(db, request, ok)
        /\ created' = create_room(request, ok)
    /\ UNCHANGED <<req, started>>

\* a request is taken by the first task that is not in the middle of one
Free(p) == req[p].pc \in {"idle", "done"}
CanStart(p) ==
    /\ Free(p)
    /\ \A q \in Procs : q < p => ~Free(q)
    /\ started < MaxRequests

\* The parameters of a request (member_id, new_member, mem_id) are inputs no
\* other task can see: each is drawn in the step that first uses it.

\* rooms.py:99-101  add_to_room up to the return of get_room
AddFetch(p) ==
    /\ CanStart(p)
    /\ req' = [req EXCEPT ![p] =
                 [Idle EXCEPT !.pc = "fetched", !.op = "add",
                              !.fetched = get_room(db), !.room = get_room(db)]]
    /\ started' = started + 1
    /\ UNCHANGED <<db, created>>

Done(r, status) == [r EXCEPT !.pc = "done", !.status = status]

\* add_task left out
add_task_Skipped(tasks, new_member) == tasks

\* rooms.py:130-135  background_tasks.add_task(centrifugo_client.publish, ...)
add_task(tasks, new_member) ==
    Append(tasks, [event |-> "ROOM_MEMBER_ADD", data |-> new_member])

\* AddResponse ignoring update_res
AddResponse_AlwaysOk(update_res) == 200

\* rooms.py:137-139
AddResponse(update_res) == IF update_res THEN 200 ELSE 424

\* rooms.py:102-139  the checks, the working copy, the DB.update call and,
\* once it has returned, the notification task and the response (what
\* follows the write reads only this task's locals)
\* For a missing room line 102 dereferences the empty result of get_room
\* before line 104 tests it: the request ends in an unhandled error (500).
AddUpdate(p) ==
    \E member_id \in ActorIds, new_member \in NewMemberInputs :
    LET r == [req[p] EXCEPT !.member_id = member_id, !.new_member = new_member] IN
    /\ r.pc = "fetched" /\ r.op = "add"
    /\ IF r.room = NotFound
       THEN /\ req' = [req EXCEPT ![p] = Done(r, 500)]
            /\ UNCHANGED db
       ELSE IF IsDMRoom(r.room)
       THEN /\ req' = [req EXCEPT ![p] = Done(r, 403)]
            /\ UNCHANGED db
       ELSE IF NotAnAdmin(r.room, r.member_id)
       THEN /\ req' = [req EXCEPT ![p] = Done(r, 401)]
            /\ UNCHANGED db
       ELSE LET res == add_members(r.room, r.new_member)
                work == [r.room EXCEPT !.room_members = res.room_members]
            IN  IF res.raised
                THEN /\ req' = [req EXCEPT ![p] = Done([r EXCEPT !.room = work], 400)]
                     /\ UNCHANGED db
                ELSE \E ok \in BOOLEAN :
                     /\ db' = DB_update(db, work.room_members, ok)
                     /\ req' = [req EXCEPT ![p] =
                                  Done([r EXCEPT !.room = work, !.update_res = ok,
                                                 !.wrote = ok,
                                                 !.tasks = add_task(r.tasks, r.new_member)],
                                       AddResponse(ok))]
    /\ UNCHANGED <<started, created>>

\* rooms.py:191  remove_member up to the return of get_room
RemoveFetch(p) ==
    /\ CanStart(p)
    /\ req' = [req EXCEPT ![p] =
                 [Idle EXCEPT !.pc = "fetched", !.op = "remove",
                              !.fetched = get_room(db), !.room = get_room(db)]]
    /\ started' = started + 1
    /\ UNCHANGED <<db, created>>

\* RemoveDone scheduling a notification for a removal answered 200
RemoveDone_Notify(r, res) ==
    Done([r EXCEPT !.room = [r.room EXCEPT !.room_members = res.room_members],
                   !.wrote = res.persisted,
                   !.tasks = IF res.status = 200
                             THEN Append(r.tasks, [event |-> "ROOM_MEMBER_REMOVE",
                                                   data |-> <<r.mem_id>>])
                             ELSE r.tasks],
         res.status)

\* rooms.py:168-221  the locals of remove_member when it returns or raises: the
\* handler takes no BackgroundTasks parameter and calls no add_task
RemoveDone(r, res) ==
    Done([r EXCEPT !.room = [r.room EXCEPT !.room_members = res.room_members],
                   !.wrote = res.persisted],
         res.status)

\* rooms.py:193-221 with remove_mem (142-163): no await, one step
RemoveFinish(p) ==
    \E member_id \in ActorIds, mem_id \in TargetIds :
    LET r == [req[p] EXCEPT !.member_id = member_id, !.mem_id = mem_id]
        res == remove_member(r.room, r.member_id, r.mem_id)
    IN
    /\ r.pc = "fetched" /\ r.op = "remove"
    /\ req' = [req EXCEPT ![p] = RemoveDone(r, res)]
    /\ db' = IF res.persisted THEN DB_update(db, res.room_members, TRUE) ELSE db
    /\ UNCHANGED <<started, created>>

Next ==
    \/ CreateRoom
    \/ \E p \in Procs : AddFetch(p)
    \/ \E p \in Procs : AddUpdate(p)
    \/ \E p \in Procs : RemoveFetch(p)
    \/ \E p \in Procs : RemoveFinish(p)

Spec == Init /\ [][Next]_vars

\* ----------------------------------------------------------------- claims
Members(room) == DOMAIN room.room_members
Size(room) == Cardinality(Members(room))
IsAdminOf(room, id) == id \in Members(room) /\ room.room_members[id].role = ADMIN
IsPlainMemberOf(room, id) == id \in Members(room) /\ room.room_members[id].role = MEMBER

\* a finished add_to_room / remove_member request
DoneAdd(r) == r.pc = "done" /\ r.op = "add"
DoneRemove(r) == r.pc = "done" /\ r.op = "remove"

\* the request sent nothing to the store; when it is the only request so
\* far, the stored room is still the one it fetched
NoWrite(r) == ~r.wrote /\ (started = 1 => db = r.fetched)

\* the step in which task p's request of kind op is decided
Decides(p, op) == req[p].pc = "fetched" /\ req[p].op = op /\ req'[p].pc = "done"

\* C1: an AddMembers request on a DM room is answered 403 and writes nothing,
\* whoever the actor is and whatever new members it names.
C1_DMAddForbidden ==
    \A p \in Procs :
        (DoneAdd(req[p]) /\ req[p].fetched.room_type = DM)
            => (req[p].status = 403 /\ NoWrite(req[p]))

\* C1 witness: an ADMIN member of a DM room asked to add members and got 403.
C1_Witness ==
    \E p \in Procs :
        /\ DoneAdd(req[p]) /\ req[p].fetched.room_type = DM
        /\ IsAdminOf(req[p].fetched, req[p].member_id)
        /\ Len(req[p].new_member) > 0
        /\ req[p].status = 403 /\ db = req[p].fetched

\* C2 as stated: on a GROUP_DM room of 9 members every AddMembers request with
\* a non-empty new_member is answered 400, whatever the actor.
C2_FullGroupAnyActor ==
    \A p \in Procs :
        (/\ DoneAdd(req[p]) /\ req[p].fetched.room_type = GROUP_DM
         /\ Size(req[p].fetched) = MAX_GROUP_DM
         /\ Len(req[p].new_member) > 0)
            => req[p].status = 400

\* C2 amended: on a GROUP_DM room of 9 members an AddMembers request by an
\* ADMIN member with a non-empty new_member is answered 400 and writes
\* nothing, also when every id it names is already a member.
C2_FullGroupAdmin ==
    \A p \in Procs :
        (/\ DoneAdd(req[p]) /\ req[p].fetched.room_type = GROUP_DM
         /\ Size(req[p].fetched) = MAX_GROUP_DM
         /\ IsAdminOf(req[p].fetched, req[p].member_id)
         /\ Len(req[p].new_member) > 0)
            => (req[p].status = 400 /\ NoWrite(req[p]))

\* C2 witness: an ADMIN of a full GROUP_DM named only a current member and
\* was answered 400.
C2_Witness ==
    \E p \in Procs :
        /\ DoneAdd(req[p]) /\ req[p].fetched.room_type = GROUP_DM
        /\ Size(req[p].fetched) = MAX_GROUP_DM
        /\ IsAdminOf(req[p].fetched, req[p].member_id)
        /\ Len(req[p].new_member) > 0
        /\ Keys(req[p].new_member) \subseteq Members(req[p].fetched)
        /\ req[p].status = 400

\* C3: on a CHANNEL or GROUP_DM room an AddMembers request by an actor who is
\* not a member, or is a member without the ADMIN role, is answered 401.
C3_NonAdminUnauthorized ==
    \A p \in Procs :
        (/\ DoneAdd(req[p]) /\ req[p].fetched.room_type \in {CHANNEL, GROUP_DM}
         /\ ~IsAdminOf(req[p].fetched, req[p].member_id))
            => (req[p].status = 401 /\ NoWrite(req[p]))

\* C3 witness: a member with role MEMBER asked to add a fresh id to a room
\* with space left and was answered 401.
C3_Witness ==
    \E p \in Procs :
        /\ DoneAdd(req[p]) /\ req[p].fetched.room_type = GROUP_DM
        /\ Size(req[p].fetched) < MAX_GROUP_DM
        /\ IsPlainMemberOf(req[p].fetched, req[p].member_id)
        /\ Len(req[p].new_member) > 0
        /\ req[p].status = 401

\* C4: when an ADMIN's AddMembers on a CHANNEL room is decided, it is answered
\* 200 if the store accepts the write (424 otherwise), and the stored
\* membership is then the fetched one merged with new_member: the ids of both,
\* an id of new_member with the entry new_member gives it, every other id with
\* its old entry; the size of the room is no obstacle.
C4_ChannelMerge ==
    [][\A p \in Procs :
        (/\ Decides(p, "add") /\ req[p].fetched.room_type = CHANNEL
         /\ IsAdminOf(req[p].fetched, req'[p].member_id))
            => LET old == req[p].fetched.room_members
                   new == req'[p].new_member
               IN  /\ req'[p].status \in {200, 424}
                   /\ req'[p].status = 200 <=> req'[p].update_res
                   /\ req'[p].update_res =>
                        /\ DOMAIN db'.room_members = (DOMAIN old) \cup Keys(new)
                        /\ \A i \in DOMAIN new : db'.room_members[new[i].id] = new[i].member
                        /\ \A k \in (DOMAIN old) \ Keys(new) : db'.room_members[k] = old[k]
    ]_vars

\* C4 witness: an ADMIN added to a CHANNEL of 9 members a batch naming a
\* current member (with another role) and a fresh id; the store now holds
\* more than 9 members and the named member has the new role.
C4_Witness ==
    \E p \in Procs :
        /\ DoneAdd(req[p]) /\ req[p].fetched.room_type = CHANNEL
        /\ Size(req[p].fetched) = MAX_GROUP_DM
        /\ req[p].status = 200
        /\ \E i \in DOMAIN req[p].new_member :
              /\ req[p].new_member[i].id \in Members(req[p].fetched)
              /\ req[p].fetched.room_members[req[p].new_member[i].id] # req[p].new_member[i].member
              /\ db.room_members[req[p].new_member[i].id] = req[p].new_member[i].member
        /\ Size(db) > MAX_GROUP_DM

\* C5 as stated: when a member of a CHANNEL room asks to remove itself, the
\* request is answered 200 and the stored membership is then the fetched one
\* without the actor.
C5_SelfRemovalPersisted ==
    [][\A p \in Procs :
        (/\ Decides(p, "remove") /\ req[p].fetched.room_type = CHANNEL
         /\ req'[p].member_id = req'[p].mem_id
         /\ req'[p].member_id \in Members(req[p].fetched))
            => /\ req'[p].status = 200
               /\ DOMAIN db'.room_members = Members(req[p].fetched) \ {req'[p].member_id}
               /\ \A k \in DOMAIN db'.room_members :
                     db'.room_members[k] = req[p].fetched.room_members[k]
    ]_vars

\* C6 as stated: when a member of a CHANNEL room asks to remove another
\* current member, an ADMIN actor is answered 200 and the target leaves the
\* stored membership; a MEMBER actor is answered 403 and the target stays.
C6_RemoveOtherIffAdmin ==
    [][\A p \in Procs :
        (/\ Decides(p, "remove") /\ req[p].fetched.room_type = CHANNEL
         /\ req'[p].member_id # req'[p].mem_id
         /\ req'[p].member_id \in Members(req[p].fetched)
         /\ req'[p].mem_id \in Members(req[p].fetched))
            => /\ IsAdminOf(req[p].fetched, req'[p].member_id)
                    => (req'[p].status = 200 /\ req'[p].mem_id \notin Members(db'))
               /\ ~IsAdminOf(req[p].fetched, req'[p].member_id)
                    => (req'[p].status = 403 /\ db' = db)
    ]_vars

\* C7: a RemoveMember request on an existing DM or GROUP_DM room is answered
\* 403 and writes nothing, for every actor and target.
C7_NonChannelRemoveForbidden ==
    \A p \in Procs :
        (DoneRemove(req[p]) /\ req[p].fetched.room_type \in {DM, GROUP_DM})
            => (req[p].status = 403 /\ NoWrite(req[p]))

\* C7 witness: a member of a GROUP_DM room asked to remove itself and was
\* answered 403.
C7_Witness ==
    \E p \in Procs :
        /\ DoneRemove(req[p]) /\ req[p].fetched.room_type = GROUP_DM
        /\ req[p].member_id = req[p].mem_id
        /\ req[p].member_id \in Members(req[p].fetched)
        /\ req[p].status = 403 /\ db = req[p].fetched

EightPlusTwo(r) ==
    /\ DoneAdd(r) /\ r.fetched.room_type = GROUP_DM
    /\ Size(r.fetched) = MAX_GROUP_DM - 1
    /\ IsAdminOf(r.fetched, r.member_id)
    /\ Len(r.new_member) = 2
    /\ Keys(r.new_member) \cap Members(r.fetched) = {}

\* C9 as stated: such a request is answered 400 and the stored room then has
\* 9 members.
C9_PartialBatchPersisted ==
    \A p \in Procs :
        EightPlusTwo(req[p]) => (req[p].status = 400 /\ Size(db) = MAX_GROUP_DM)

\* C9 amended: such a request is answered 400 and writes nothing: only its
\* working copy reaches 9 members (the first new member), the stored room
\* keeps the 8 members it had.
C9_PartialBatchDiscarded ==
    \A p \in Procs :
        EightPlusTwo(req[p]) =>
            /\ req[p].status = 400
            /\ NoWrite(req[p])
            /\ Members(req[p].room) = Members(req[p].fetched) \cup {req[p].new_member[1].id}
            /\ Size(req[p].room) = MAX_GROUP_DM

\* C9 witness: the request was answered 400 and the stored room has 8 members.
C9_Witness ==
    \E p \in Procs :
        /\ EightPlusTwo(req[p]) /\ req[p].status = 400
        /\ Size(db) = MAX_GROUP_DM - 1 /\ db = req[p].fetched

\* C10: the stored membership of a GROUP_DM room always counts between 2 and
\* 9 members, whatever requests have run and however they interleaved.
C10_GroupDmSize ==
    db.room_type = GROUP_DM => (Size(db) >= 2 /\ Size(db) <= MAX_GROUP_DM)

\* C10 witness: two add requests fetched the same GROUP_DM room of 8 members,
\* each added a different fresh id, both were answered 200 and the stored room
\* has 9 members.
C10_Witness ==
    /\ \A p \in Procs :
          /\ DoneAdd(req[p]) /\ req[p].status = 200
          /\ req[p].fetched.room_type = GROUP_DM
          /\ Size(req[p].fetched) = MAX_GROUP_DM - 1
          /\ Size(req[p].room) = MAX_GROUP_DM
    /\ req[1].fetched = req[2].fetched
    /\ Members(req[1].room) # Members(req[2].room)
    /\ Size(db) = MAX_GROUP_DM

\* the answers that are policy denials
Denials == {400, 401, 403, 404}

\* C11: the stored membership of a DM room is always the 2-member mapping the
\* room was created with, and no finished request that fetched a DM room has
\* written to the store.
C11_DMImmutable ==
    /\ db.room_type = DM =>
          /\ db \in {request \in RoomRequests : request.room_type = DM}
          /\ Size(db) = 2
    /\ \A p \in Procs :
          (req[p].pc = "done" /\ req[p].fetched.room_type = DM) => ~req[p].wrote

\* C11 witness: an ADMIN's AddMembers and a member's self-removal have both
\* finished on a DM room, which still holds its two initial members.
C11_Witness ==
    /\ db.room_type = DM /\ Size(db) = 2
    /\ \E p, q \in Procs :
          /\ DoneAdd(req[p]) /\ req[p].fetched = db
          /\ IsAdminOf(db, req[p].member_id) /\ Len(req[p].new_member) > 0
          /\ DoneRemove(req[q]) /\ req[q].fetched = db
          /\ req[q].member_id = req[q].mem_id /\ req[q].member_id \in Members(db)

\* C12: the step that decides an AddMembers or RemoveMember request with a
\* policy denial (400, 401, 403, 404) leaves the stored room as it was.
C12_DenialWritesNothing ==
    [][\A p \in Procs :
        ((Decides(p, "add") \/ Decides(p, "remove")) /\ req'[p].status \in Denials)
            => (db' = db /\ ~req'[p].wrote)
    ]_vars

\* C12 witness: an AddMembers was denied with 400 after its working copy had
\* taken a new member, a RemoveMember was denied with 403 although its
\* target is a member, and the stored room is the one both fetched.
C12_Witness ==
    \E p, q \in Procs :
        /\ DoneAdd(req[p]) /\ req[p].status = 400
        /\ req[p].room # req[p].fetched /\ db = req[p].fetched
        /\ DoneRemove(req[q]) /\ req[q].status = 403
        /\ req[q].mem_id \in Members(req[q].fetched) /\ db = req[q].fetched

\* C13: when the only request so far is an AddMembers on a CHANNEL or GROUP_DM
\* room that was answered 200, the next fetch of the room returns a
\* membership with every entry of new_member as supplied, every fetched
\* member not named in new_member unchanged, and nothing else.
C13_AddThenFetch ==
    [][\A p, q \in Procs :
        (/\ started = 1 /\ DoneAdd(req[p]) /\ req[p].status = 200
         /\ req[p].fetched.room_type \in {CHANNEL, GROUP_DM}
         /\ req'[q].pc = "fetched" /\ started' = 2)
            => LET old == req[p].fetched.room_members
                   new == req[p].new_member
                   got == req'[q].fetched.room_members
               IN  /\ DOMAIN got = (DOMAIN old) \cup Keys(new)
                   /\ \A i \in DOMAIN new : got[new[i].id] = new[i].member
                   /\ \A k \in (DOMAIN old) \ Keys(new) : got[k] = old[k]
    ]_vars

\* C13 witness: the only request so far added two ids to a GROUP_DM room, one
\* of them a member whose role it changed, was answered 200, and the stored
\* room has the members it sent.
C13_Witness ==
    \E p \in Procs :
        /\ started = 1 /\ DoneAdd(req[p]) /\ req[p].status = 200
        /\ req[p].fetched.room_type = GROUP_DM
        /\ Len(req[p].new_member) = 2
        /\ Keys(req[p].new_member) \cap Members(req[p].fetched) # {}
        /\ Keys(req[p].new_member) \ Members(req[p].fetched) # {}
        /\ req[p].room # req[p].fetched
        /\ db = req[p].room

\* two finished AddMembers requests that fetched the same room and were both
\* answered 200
BothAdded ==
    /\ \A p \in Procs : DoneAdd(req[p]) /\ req[p].status = 200
    /\ req[1].fetched = req[2].fetched

\* the membership is the fetched one of request r merged with r's new_member
MergedFrom(room_members, r) ==
    /\ DOMAIN room_members = Members(r.fetched) \cup Keys(r.new_member)
    /\ \A i \in DOMAIN r.new_member :
          room_members[r.new_member[i].id] = r.new_member[i].member
    /\ \A k \in Members(r.fetched) \ Keys(r.new_member) :
          room_members[k] = r.fetched.room_members[k]

\* C14: when two AddMembers requests have fetched the same room and both
\* were answered 200, the stored membership is the one a single one of them
\* computed from that snapshot: the members only the other one added are not
\* in it.
C14_LostUpdate ==
    BothAdded =>
        \E w \in Procs :
            /\ MergedFrom(db.room_members, req[w])
            /\ \A l \in Procs \ {w} :
                  (Keys(req[l].new_member) \ Keys(req[w].new_member))
                      \cap Members(db) \subseteq Members(req[w].fetched)

\* C14 witness: both requests were answered 200 and a fresh id that one of
\* them added is missing from the stored membership.
C14_Witness ==
    /\ BothAdded
    /\ \E l \in Procs :
          \E k \in Keys(req[l].new_member) :
              k \notin Members(req[l].fetched) /\ k \notin Members(db)

\* C15 as stated: a request that has scheduled a ROOM_MEMBER_ADD notification
\* has had its membership written to the store.
C15_NotifyAfterCommit ==
    \A p \in Procs :
        (\E i \in DOMAIN req[p].tasks : req[p].tasks[i].event = "ROOM_MEMBER_ADD")
            => req[p].wrote

\* a finished AddMembers that got past the policy checks (an ADMIN member on a
\* CHANNEL or GROUP_DM room, not stopped by the size test) and whose store
\* write failed
AddWriteFailed(r) ==
    /\ DoneAdd(r) /\ r.fetched.room_type \in {CHANNEL, GROUP_DM}
    /\ IsAdminOf(r.fetched, r.member_id)
    /\ r.status # 400
    /\ ~r.update_res

\* C16: an AddMembers that passed the policy checks and whose store write
\* failed is answered 424, has written nothing, and has scheduled exactly one
\* ROOM_MEMBER_ADD notification carrying its new_member.
C16_NotifyOnFailure ==
    \A p \in Procs :
        AddWriteFailed(req[p]) =>
            /\ req[p].status = 424
            /\ ~req[p].wrote
            /\ req[p].tasks = <<[event |-> "ROOM_MEMBER_ADD", data |-> req[p].new_member]>>

\* C16 witness: an ADMIN's AddMembers of a fresh id to a CHANNEL room failed at
\* the store: answered 424, the room stored is the one fetched, and the
\* notification is scheduled.
C16_Witness ==
    \E p \in Procs :
        /\ AddWriteFailed(req[p]) /\ req[p].fetched.room_type = CHANNEL
        /\ req[p].status = 424 /\ db = req[p].fetched
        /\ Keys(req[p].new_member) \ Members(req[p].fetched) # {}
        /\ Len(req[p].tasks) = 1

\* C17: a create_room whose store write failed is answered 424 and has
\* scheduled nothing, and no room is stored; a creation notification is
\* scheduled only by a create_room that stored the room and answered 201.
C17_CreateFailureNoNotify ==
    /\ created.status = 424 => (created.tasks = << >> /\ db = NotFound)
    /\ created.tasks # << >> => (created.status = 201 /\ db # NotFound)

\* C17 witness: a create_room has failed: 424, no room stored, no task.
C17_Witness ==
    created.status = 424 /\ db = NotFound /\ created.tasks = << >>

\* C18: a RemoveMember request has no scheduled notification at any point,
\* whatever its outcome.
C18_RemoveNeverNotifies ==
    \A p \in Procs : req[p].op = "remove" => req[p].tasks = << >>

\* C18 witness: a RemoveMember of a current member was answered 200 and has
\* scheduled nothing.
C18_Witness ==
    \E p \in Procs :
        /\ DoneRemove(req[p]) /\ req[p].status = 200
        /\ req[p].mem_id \in Members(req[p].fetched)
        /\ req[p].tasks = << >>

\* C19 as stated: when the only member of a CHANNEL room asks to remove
\* itself, the request is answered 200 and the stored membership is then
\* empty.
C19_LastMemberLeaves ==
    [][\A p \in Procs :
        (/\ Decides(p, "remove") /\ req[p].fetched.room_type = CHANNEL
         /\ Members(req[p].fetched) = {req'[p].member_id}
         /\ req'[p].mem_id = req'[p].member_id)
            => (req'[p].status = 200 /\ Members(db') = {})
    ]_vars

\* C20: a finished AddMembers or RemoveMember request whose actor was not a
\* member of the room it fetched was denied (401, 403 or 404) and wrote
\* nothing.
C20_NonMemberCannotChange ==
    \A p \in Procs :
        (/\ req[p].pc = "done" /\ req[p].fetched # NotFound
         /\ req[p].member_id \notin Members(req[p].fetched))
            => (req[p].status \in {401, 403, 404} /\ NoWrite(req[p]))

\* C20 witness: a non-member asked to remove a current member of a CHANNEL
\* room, was answered 404, and the room is stored as fetched.
C20_Witness ==
    \E p \in Procs :
        /\ DoneRemove(req[p]) /\ req[p].fetched.room_type = CHANNEL
        /\ req[p].member_id \notin Members(req[p].fetched)
        /\ req[p].mem_id \in Members(req[p].fetched)
        /\ req[p].status = 404 /\ db = req[p].fetched

====
